---- MODULE Spec2Model ----
(***************************************************************************)
(* Production Event Template System: generate.py (load_event, main) with   *)
(* generators/companion_generator.py and generators/checklist_generator.py *)
(*                                                                         *)
(* Python dicts are functions with a finite string domain (a key that is   *)
(* absent is not in DOMAIN), lists are sequences, strings are strings.     *)
(* A YAML scalar that is a hub-action argument is a record [t, v]: t is    *)
(* its Python type and v its text.                                         *)
(***************************************************************************)
EXTENDS Integers, Sequences, FiniteSets, TLC

VARIABLES
    template,    \* argv and the template file: [exists, data, only]
    clock,       \* the environment clock (day of the month)
    run,         \* number of the current invocation of main
    pc,          \* position of main
    event,       \* main's local 'event'
    stdout,      \* warnings and errors printed by load_event
    exitCode,    \* process exit status, -1 while running
    buttons,     \* _build_show_control_page: buttons
    col,         \* _build_show_control_page: col
    row,         \* _build_show_control_page: row
    idx,         \* _build_show_control_page: position in the bucket being iterated
    pages,       \* CompanionGenerator.generate: pages
    generated,   \* main's local 'generated'
    files,       \* the output directory: path -> content
    archive      \* the output directories left by the completed invocations

vars == <<template, clock, run, pc, event, stdout, exitCode, buttons, col, row,
          idx, pages, generated, files, archive>>

-----------------------------------------------------------------------------
(* Bounds *)

MaxBucket == 9      \* cues per timing bucket in the block inputs
MaxCues == 3        \* cues in the interleaved inputs
MaxActions == 2     \* hub actions of a cue
MaxMics == 8
MaxPresets == 8
MaxCams == 2
MaxDay == 1         \* days the clock may advance
MaxRuns == 2        \* invocations of main on the same template

-----------------------------------------------------------------------------
(* Python built-ins *)

EmptyDict == [k \in {} |-> 0]

Get(d, k, default) == IF k \in DOMAIN d THEN d[k] ELSE default

Put(d, k, v) == [x \in DOMAIN d \cup {k} |-> IF x = k THEN v ELSE d[x]]

Min(a, b) == IF a < b THEN a ELSE b

StartsWith(s, p) == Len(s) >= Len(p) /\ SubSeq(s, 1, Len(p)) = p

RECURSIVE Replace(_, _, _)
Replace(s, old, new) ==
    IF Len(s) < Len(old) THEN s
    ELSE IF SubSeq(s, 1, Len(old)) = old
         THEN new \o Replace(SubSeq(s, Len(old) + 1, Len(s)), old, new)
         ELSE SubSeq(s, 1, 1) \o Replace(SubSeq(s, 2, Len(s)), old, new)

UpperChar(c) ==
    CASE c = "a" -> "A" [] c = "b" -> "B" [] c = "c" -> "C" [] c = "d" -> "D"
      [] c = "e" -> "E" [] c = "f" -> "F" [] c = "g" -> "G" [] c = "h" -> "H"
      [] c = "i" -> "I" [] c = "j" -> "J" [] c = "k" -> "K" [] c = "l" -> "L"
      [] c = "m" -> "M" [] c = "n" -> "N" [] c = "o" -> "O" [] c = "p" -> "P"
      [] c = "q" -> "Q" [] c = "r" -> "R" [] c = "s" -> "S" [] c = "t" -> "T"
      [] c = "u" -> "U" [] c = "v" -> "V" [] c = "w" -> "W" [] c = "x" -> "X"
      [] c = "y" -> "Y" [] c = "z" -> "Z" [] OTHER -> c

RECURSIVE Upper(_)
Upper(s) ==
    IF Len(s) = 0 THEN s
    ELSE UpperChar(SubSeq(s, 1, 1)) \o Upper(SubSeq(s, 2, Len(s)))

\* isinstance(arg, float)
IsFloat(arg) == arg.t = "float"

\* isinstance(arg, int): bool is a subclass of int
IsInt(arg) == arg.t \in {"int", "bool"}

\* str(arg), as a str value
PyStr(arg) ==
    [t |-> "str",
     v |-> CASE arg.t = "str" -> arg.v
             [] arg.t = "bool" -> (IF arg.v = "true" THEN "True" ELSE "False")
             [] arg.t = "null" -> "None"
             [] OTHER -> arg.v]

-----------------------------------------------------------------------------
(* companion_generator.py *)

grid_cols == 8
grid_rows == 4

COLORS ==
    [lighting |-> [bg |-> 204 + (153 * 256) + (0 * 65536), text |-> 0],
     audio    |-> [bg |-> 0 + (153 * 256) + (204 * 65536), text |-> 0],
     video    |-> [bg |-> 51 + (102 * 256) + (204 * 65536), text |-> 16777215],
     system   |-> [bg |-> 153 + (51 * 256) + (153 * 65536), text |-> 16777215],
     go       |-> [bg |-> 0 + (204 * 256) + (0 * 65536), text |-> 0],
     stop     |-> [bg |-> 204 + (0 * 256) + (0 * 65536), text |-> 16777215],
     header   |-> [bg |-> 40 + (40 * 256) + (40 * 65536), text |-> 16777215],
     blank    |-> [bg |-> 0, text |-> 5592405]]

_make_button(text, style, size, actions) ==
    LET palette == Get(COLORS, style, COLORS["blank"])
    IN  [type |-> "button",
         enabled |-> TRUE,
         style |-> [text |-> text,
                    size |-> size \o "px",
                    color |-> palette["text"],
                    bgcolor |-> palette["bg"],
                    alignment |-> "center",
                    show_topbar |-> (style # "header"),
                    textExpression |-> FALSE],
         steps |-> IF Len(actions) > 0
                   THEN [step0 |-> [down |-> actions, up |-> <<>>]]
                   ELSE EmptyDict,
         feedbacks |-> <<>>]

_make_go_button == _make_button("GO\n(QLab)", "go", "14", <<>>)

_make_stop_button == _make_button("STOP\n(QLab)", "stop", "14", <<>>)

\* one iteration of the loop of _hub_actions_to_osc
OscAction(ha) ==
    LET address == Get(ha, "address", "")
        hasArgs == "args" \in DOMAIN ha /\ Len(ha["args"]) > 0
        arg == ha["args"][1]
    IN  IF hasArgs
        THEN IF IsFloat(arg)
             THEN [actionId |-> "osc:send_float",
                   options |-> [path |-> address, value |-> arg]]
             ELSE IF IsInt(arg)
             THEN [actionId |-> "osc:send_integer",
                   options |-> [path |-> address, value |-> arg]]
             ELSE [actionId |-> "osc:send_string",
                   options |-> [path |-> address, value |-> PyStr(arg)]]
        ELSE [actionId |-> "osc:send_no_args",
              options |-> [path |-> address]]

_hub_actions_to_osc(hub_actions) ==
    [i \in 1..Len(hub_actions) |-> OscAction(hub_actions[i])]

\* f"{cue_number}" with the default "???"
CueNumberText(cue) ==
    IF "number" \in DOMAIN cue THEN ToString(cue["number"]) ELSE "???"

\* a placeholder that triggers /cue/{number}/go
PlaceholderActionsGo(cue_number) ==
    <<[actionId |-> "osc:send_no_args",
       options |-> [path |-> "/cue/" \o cue_number \o "/go"]]>>

\* the fallback actions of a cue without hub actions
PlaceholderActions(cue_number) ==
    <<[actionId |-> "osc:send_no_args",
       options |-> [path |-> "/cue/" \o cue_number \o "/start"]]>>

_make_cue_button(cue) ==
    LET cue_type == Get(cue, "type", "system")
        cue_number == CueNumberText(cue)
        cue_name == Get(cue, "name", "Untitled")
        hub_actions == Get(cue, "hub_actions", <<>>)
        display_name == SubSeq(cue_name, 1, Min(16, Len(cue_name)))
        actions == IF Len(hub_actions) > 0
                   THEN _hub_actions_to_osc(hub_actions)
                   ELSE PlaceholderActions(cue_number)
    IN  _make_button("Q" \o cue_number \o "\n" \o display_name, cue_type, "12", actions)

\* f"{row},{col}"
Key(r, c) == ToString(r) \o "," \o ToString(c)

\* one iteration of the camera loop of _build_av_control_page (i is 0-based)
CameraButton(cam, i) ==
    LET cam_id == Get(cam, "id", "cam" \o ToString(i + 1))
        shot == Get(cam, "shot", "")
        scene_name == Replace(cam_id, "cam", "Camera")
    IN  _make_button(Upper(cam_id) \o "\n" \o shot, "video", "14",
            <<[actionId |-> "osc:send_no_args",
               options |-> [path |-> "/obs/scene/" \o scene_name]],
              [actionId |-> "osc:send_no_args",
               options |-> [path |-> "/" \o cam_id \o "/preset/recall/1"]]>>)

RECURSIVE CameraLoop(_, _, _)
CameraLoop(b, cameras, i) ==
    IF i >= Len(cameras) THEN b
    ELSE CameraLoop(Put(b, Key(1, i + 1), CameraButton(cameras[i + 1], i)),
                    cameras, i + 1)

\* f"/avantis/ch/{channel}/mix/mute"
MutePath(mic, i) ==
    "/avantis/ch/" \o ToString(Get(mic, "input_channel", i + 1)) \o "/mix/mute"

MuteButton(mic, i) ==
    LET mic_id == Get(mic, "id", "mic" \o ToString(i + 1))
    IN  _make_button(Upper(mic_id) \o "\nMUTE", "audio", "14",
            <<[actionId |-> "osc:send_integer",
               options |-> [path |-> MutePath(mic, i), value |-> 1]]>>)

UnmuteButton(mic, i) ==
    LET mic_id == Get(mic, "id", "mic" \o ToString(i + 1))
    IN  _make_button(Upper(mic_id) \o "\nUNMUTE", "go", "14",
            <<[actionId |-> "osc:send_integer",
               options |-> [path |-> MutePath(mic, i), value |-> 0]]>>)

\* unmute_col <= self.grid_cols
UnmuteFitsInclusive(unmute_col) == unmute_col <= grid_cols

\* the guard of the unmute button
UnmuteFits(unmute_col) == unmute_col < grid_cols

RECURSIVE MicLoop(_, _, _)
MicLoop(b, mics, i) ==
    IF i >= Len(mics) THEN b
    ELSE LET mic == mics[i + 1]
             b1 == Put(b, Key(2, i + 1), MuteButton(mic, i))
             unmute_col == i + 1 + Len(mics)
             b2 == IF UnmuteFits(unmute_col)
                   THEN Put(b1, Key(2, unmute_col), UnmuteButton(mic, i))
                   ELSE b1
         IN  MicLoop(b2, mics, i + 1)

\* presets[:8]
PresetSliceGridWidth(presets) == SubSeq(presets, 1, Min(8, Len(presets)))

\* presets[:7]
PresetSlice(presets) == SubSeq(presets, 1, Min(7, Len(presets)))

PresetButton(preset, i) ==
    LET preset_name == Get(preset, "name", "Preset " \o ToString(i + 1))
        exec_num == i + 1
        display == IF Len(preset_name) > 10
                   THEN Replace(preset_name, " ", "\n")
                   ELSE preset_name
    IN  _make_button(display, "lighting", "11",
            <<[actionId |-> "osc:send_no_args",
               options |-> [path |-> "/lights/exec/" \o ToString(exec_num)]]>>)

RECURSIVE PresetLoop(_, _, _)
PresetLoop(b, presets, i) ==
    IF i >= Len(presets) THEN b
    ELSE PresetLoop(Put(b, Key(3, i + 1), PresetButton(presets[i + 1], i)),
                    presets, i + 1)

_build_av_control_page(ev) ==
    LET b0 == Put(EmptyDict, "0,0", _make_button("A/V\nCONTROL", "header", "14", <<>>))
        b1 == Put(b0, "1,0", _make_button("CAMERAS", "header", "12", <<>>))
        cameras == Get(Get(ev, "video", EmptyDict), "cameras", <<>>)
        b2 == CameraLoop(b1, cameras, 0)
        b3 == Put(b2, "2,0", _make_button("AUDIO", "header", "12", <<>>))
        mics == Get(Get(ev, "audio", EmptyDict), "microphones", <<>>)
        b4 == MicLoop(b3, mics, 0)
        b5 == Put(b4, "3,0", _make_button("LIGHTING", "header", "12", <<>>))
        presets == Get(Get(ev, "lighting", EmptyDict), "presets", <<>>)
        b6 == PresetLoop(b5, PresetSlice(presets), 0)
    IN  [name |-> "A/V Control",
         gridSize |-> [columns |-> grid_cols, rows |-> grid_rows],
         buttons |-> b6]

\* the header row and the GO and STOP buttons of _build_show_control_page
ShowControlHeader(ev) ==
    [k \in {"0,0", "0,1", "0,4", "0,6", "0,2", "0,3"} |->
        CASE k = "0,0" -> _make_button(Get(ev, "event_name", "Show") \o "\nCONTROL",
                                       "header", "14", <<>>)
          [] k = "0,1" -> _make_button("PRE-SHOW", "header", "14", <<>>)
          [] k = "0,4" -> _make_button("SHOW", "header", "14", <<>>)
          [] k = "0,6" -> _make_button("POST-SHOW", "header", "14", <<>>)
          [] k = "0,2" -> _make_go_button
          [] k = "0,3" -> _make_stop_button]

\* c.get("timing"), None modelled as the empty string
Timing(c) == Get(c, "timing", "")

IsPreShow(c) == Timing(c) = "pre-show"
IsShowCue(c) == Timing(c) \notin {"pre-show", "post-show"}
IsPostShow(c) == Timing(c) = "post-show"

pre_show(ev) == SelectSeq(Get(ev, "cues", <<>>), IsPreShow)
show_cues(ev) == SelectSeq(Get(ev, "cues", <<>>), IsShowCue)
post_show(ev) == SelectSeq(Get(ev, "cues", <<>>), IsPostShow)

\* a connection config that falls back to Companion's own port
HubConfigCompanionPort(hub) ==
    [host |-> Get(hub, "host", "127.0.0.1"),
     port |-> Get(hub, "port", 8000),
     send_enabled |-> TRUE]

\* the "config" of the connection
HubConfig(hub) ==
    [host |-> Get(hub, "host", "127.0.0.1"),
     port |-> Get(hub, "port", 9000),
     send_enabled |-> TRUE]

_build_osc_connection(ev) ==
    LET network == Get(ev, "network", EmptyDict)
        hub == Get(network, "hub", EmptyDict)
    IN  [id |-> "osc_hub",
         module |-> "generic-osc",
         label |-> "Production Hub",
         config |-> HubConfig(hub)]

\* the config assembled by CompanionGenerator.generate from the built pages
CompanionConfig(ev, pgs) ==
    [version |-> "4.2.0",
     type |-> "page_export",
     event_type |-> Get(ev, "event_type", "unknown"),
     event_name |-> Get(ev, "event_name", "Untitled Event"),
     pages |-> pgs,
     connections |-> <<_build_osc_connection(ev)>>]

-----------------------------------------------------------------------------
(* checklist_generator.py: the checklist is the sequence of its lines; a     *)
(* section's checkbox lines that carry no model field are left out, and the  *)
(* Markdown code quote is written as an apostrophe.                          *)

\* f"{d.get(k, default)}" for an integer field with a textual default
IntText(d, k, default) == IF k \in DOMAIN d THEN ToString(d[k]) ELSE default

Pad2(n) == IF n < 10 THEN "0" \o ToString(n) ELSE ToString(n)

\* datetime.now().strftime("%Y-%m-%d"), the clock counting days from 2026-01-01
Strftime(now) == "2026-01-" \o Pad2(now + 1)

_header(ev, now) ==
    LET event_name == Get(ev, "event_name", "Untitled Event")
        event_type == Get(ev, "event_type", "unknown")
        venue == Get(ev, "venue", "TBD")
        performers == IntText(Get(ev, "performers", EmptyDict), "count", "0")
        date == Strftime(now)
    IN  <<"# Setup Checklist: " \o event_name,
          "",
          "| Field | Value |",
          "|-------|-------|",
          "| Event Type | '" \o event_type \o "' |",
          "| Venue | " \o venue \o " |",
          "| Performers | " \o performers \o " |",
          "| Generated | " \o date \o " |",
          "| Template Version | "
              \o Get(Get(ev, "metadata", EmptyDict), "version", "1.0") \o " |",
          "",
          "---",
          "",
          "">>

MicHardwareLines(mic) ==
    <<"- [ ] **" \o Get(mic, "id", "unknown") \o "** ("
          \o Get(mic, "type", "unknown") \o "): " \o Get(mic, "model", "TBD"),
      "  - Assigned to: " \o Get(mic, "performer", "TBD"),
      "  - Input channel: " \o IntText(mic, "input_channel", "?"),
      "  - Battery check: fresh batteries installed">>

CamHardwareLines(cam) ==
    <<"- [ ] **" \o Get(cam, "id", "unknown") \o "** positioned at "
          \o Get(cam, "position", "TBD"),
      "  - Shot type: " \o Get(cam, "shot", "TBD"),
      "  - Resolution: " \o Get(cam, "resolution", "1080p"),
      "  - Focus and framing verified">>

RECURSIVE MicHardwareLoop(_)
MicHardwareLoop(mics) ==
    IF Len(mics) = 0 THEN <<>>
    ELSE MicHardwareLines(Head(mics)) \o MicHardwareLoop(Tail(mics))

RECURSIVE CamHardwareLoop(_)
CamHardwareLoop(cameras) ==
    IF Len(cameras) = 0 THEN <<>>
    ELSE CamHardwareLines(Head(cameras)) \o CamHardwareLoop(Tail(cameras))

_hardware_setup(ev) ==
    LET mics == Get(Get(ev, "audio", EmptyDict), "microphones", <<>>)
        cameras == Get(Get(ev, "video", EmptyDict), "cameras", <<>>)
    IN  <<"## 1. Hardware Setup", "", "### Audio", "">>
        \o MicHardwareLoop(mics)
        \o <<"", "### Video", "">>
        \o CamHardwareLoop(cameras)
        \o <<"">>

_network_setup(ev) ==
    LET network == Get(ev, "network", EmptyDict)
        hub == Get(network, "hub", EmptyDict)
        qlab == Get(network, "qlab", EmptyDict)
        companion == Get(network, "companion", EmptyDict)
        td == Get(network, "touchdesigner", EmptyDict)
        lighting == Get(network, "lighting_console", EmptyDict)
    IN  <<"## 2. Network Configuration",
          "",
          "- [ ] All devices on same network / VLAN",
          "- [ ] Production Hub running at '" \o Get(hub, "host", "127.0.0.1")
              \o ":" \o IntText(hub, "port", "9000") \o "'",
          "- [ ] Hub dashboard accessible at 'http://"
              \o Get(hub, "host", "127.0.0.1") \o ":8080/'",
          "- [ ] All hub drivers connected (check '/health' endpoint)",
          "- [ ] QLab machine reachable at '" \o Get(qlab, "host", "127.0.0.1")
              \o ":" \o IntText(qlab, "port", "53000") \o "'",
          "- [ ] Companion reachable at '" \o Get(companion, "host", "127.0.0.1")
              \o ":" \o IntText(companion, "port", "8000") \o "'",
          "- [ ] TouchDesigner OSC listening on port '"
              \o IntText(td, "osc_listen_port", "12000") \o "'",
          "- [ ] Lighting console at '" \o Get(lighting, "host", "TBD")
              \o ":" \o IntText(lighting, "port", "TBD") \o "' ("
              \o Get(lighting, "protocol", "OSC") \o ")",
          "- [ ] Firewall rules allow OSC traffic (UDP) between all devices",
          "- [ ] Network switch / router powered and verified",
          "",
          "">>

_software_config(ev) ==
    LET network == Get(ev, "network", EmptyDict)
        hub == Get(network, "hub", EmptyDict)
        qlab_passcode == Get(Get(network, "qlab", EmptyDict), "passcode", "1234")
        hub_port == IntText(hub, "port", "9000")
        td_port == IntText(Get(network, "touchdesigner", EmptyDict),
                           "osc_listen_port", "12000")
    IN  <<"## 3. Software Configuration",
          "",
          "### Production Hub",
          "- [ ] Hub OSC port '" \o hub_port \o "' receiving traffic",
          "",
          "### QLab",
          "- [ ] OSC passcode set to '" \o qlab_passcode \o "'",
          "",
          "### Companion",
          "",
          "### TouchDesigner",
          "- [ ] OSC input receiving from hub on port '" \o td_port \o "'",
          "",
          "">>

RECURSIVE SoundCheckLoop(_)
SoundCheckLoop(mics) ==
    IF Len(mics) = 0 THEN <<>>
    ELSE LET mic == Head(mics)
         IN  <<"- [ ] **" \o Get(mic, "id", "unknown") \o "** ("
                   \o Get(mic, "performer", "TBD") \o ")",
               "  - Channel " \o IntText(mic, "input_channel", "?") \o " signal present",
               "  - Gain at " \o IntText(mic, "gain_db", "-12") \o "dB, adjust to taste">>
             \o SoundCheckLoop(Tail(mics))

_sound_check(ev) ==
    <<"## 4. Sound Check", "">>
    \o SoundCheckLoop(Get(Get(ev, "audio", EmptyDict), "microphones", <<>>))
    \o <<"- [ ] Main mix balanced", "">>

RECURSIVE VideoCheckLoop(_)
VideoCheckLoop(cameras) ==
    IF Len(cameras) = 0 THEN <<>>
    ELSE LET cam == Head(cameras)
         IN  <<"- [ ] **" \o Get(cam, "id", "unknown") \o "** ("
                   \o Get(cam, "shot", "TBD") \o " shot)">>
             \o VideoCheckLoop(Tail(cameras))

_video_check(ev) ==
    <<"## 5. Video Check", "">>
    \o VideoCheckLoop(Get(Get(ev, "video", EmptyDict), "cameras", <<>>))
    \o <<"- [ ] Video switch tested (all camera cuts clean)", "">>

RECURSIVE LightingCheckLoop(_)
LightingCheckLoop(presets) ==
    IF Len(presets) = 0 THEN <<>>
    ELSE LET preset == Head(presets)
             desc == Get(preset, "description", "")
         IN  <<"- [ ] Preset **" \o Get(preset, "name", "Unknown") \o "** verified">>
             \o (IF Len(desc) > 0 THEN <<"  - " \o desc>> ELSE <<>>)
             \o LightingCheckLoop(Tail(presets))

_lighting_check(ev) ==
    LET lighting == Get(ev, "lighting", EmptyDict)
    IN  <<"## 6. Lighting Check",
          "",
          "- [ ] Lighting console: " \o Get(lighting, "controller", "TBD"),
          "- [ ] Universe: " \o IntText(lighting, "universe", "1"),
          "">>
        \o LightingCheckLoop(Get(lighting, "presets", <<>>))
        \o <<"- [ ] All lighting cues fire correctly from QLab/Companion", "">>

\* one iteration of the loop of _show_time
CueLine(cue) ==
    "- [ ] **Q" \o CueNumberText(cue) \o "** " \o Get(cue, "name", "Untitled")
        \o " [" \o Get(cue, "type", "unknown") \o "] @ " \o Get(cue, "timing", "manual")

ShowTimeHead ==
    <<"## 7. Show Time Checklist",
      "",
      "### 15 Minutes Before",
      "- [ ] All systems powered and stable",
      "- [ ] Recording media has sufficient space",
      "- [ ] Companion page on Show Control",
      "- [ ] QLab playhead on first cue",
      "",
      "### 5 Minutes Before",
      "- [ ] House to half (cue ready)",
      "- [ ] Performers miked and in position",
      "- [ ] Stage manager confirms ready",
      "",
      "### Cue Sequence",
      "">>

\* the position a cue takes when the list is sorted by number, ties in
\* declared order
NumberRank(cues, i) ==
    Cardinality({x \in 1..Len(cues) :
        \/ cues[x]["number"] < cues[i]["number"]
        \/ cues[x]["number"] = cues[i]["number"] /\ x < i}) + 1

\* sorted(cues, key=number), for cues that all carry a number
SortedByNumber(cues) ==
    [j \in 1..Len(cues) |->
        cues[CHOOSE i \in 1..Len(cues) : NumberRank(cues, i) = j]]

\* a show-time section that lists the cues by ascending number
_show_timeByNumber(ev) ==
    LET cues == Get(ev, "cues", <<>>)
        listed == IF \A i \in 1..Len(cues) : "number" \in DOMAIN cues[i]
                  THEN SortedByNumber(cues) ELSE cues
    IN  ShowTimeHead
        \o [i \in 1..Len(listed) |-> CueLine(listed[i])]
        \o <<"">>

_show_time(ev) ==
    LET cues == Get(ev, "cues", <<>>)
    IN  ShowTimeHead
        \o [i \in 1..Len(cues) |-> CueLine(cues[i])]
        \o <<"">>

\* a post-show section that counts the files found in the output directory
_post_showCountsFiles ==
    <<"## 8. Post-Show",
      "",
      "- [ ] " \o ToString(Cardinality(DOMAIN files)) \o " generated files backed up",
      "">>

_post_show ==
    <<"## 8. Post-Show",
      "",
      "- [ ] Recording stopped and files verified",
      "- [ ] All recordings backed up to secondary media",
      "- [ ] Microphones powered down, batteries removed",
      "- [ ] Cameras powered down",
      "- [ ] Lighting returned to house preset",
      "- [ ] QLab workspace saved",
      "- [ ] Companion configuration saved",
      "- [ ] Network equipment powered down (if applicable)",
      "- [ ] Venue walkthrough - all gear accounted for",
      "",
      "">>

_emergency_contacts ==
    <<"## 9. Emergency Procedures",
      "",
      "---",
      "*Generated by the Production Event Template System*",
      "">>

\* ChecklistGenerator.generate, 'now' being the clock read by _header
ChecklistGenerate(ev, now) ==
    _header(ev, now) \o _hardware_setup(ev) \o _network_setup(ev)
    \o _software_config(ev) \o _sound_check(ev) \o _video_check(ev)
    \o _lighting_check(ev) \o _show_time(ev) \o _post_show
    \o _emergency_contacts

-----------------------------------------------------------------------------
(* generators/qlab_generator.py and generators/touchdesigner_generator.py:   *)
(* what the two scripts take from the event model.                           *)

QLabScript(ev) ==
    LET network == Get(ev, "network", EmptyDict)
        hub == Get(network, "hub", EmptyDict)
    IN  [kind |-> "qlab_cues",
         hub_host |-> Get(hub, "host", "127.0.0.1"),
         hub_port |-> Get(hub, "port", 9000),
         passcode |-> Get(Get(network, "qlab", EmptyDict), "passcode", "1234")]

TouchDesignerScript(ev) ==
    LET network == Get(ev, "network", EmptyDict)
    IN  [kind |-> "touchdesigner_setup",
         osc_listen_port |-> Get(Get(network, "touchdesigner", EmptyDict),
                                 "osc_listen_port", 12000),
         inputs |-> Len(Get(Get(ev, "video", EmptyDict), "cameras", <<>>))]

-----------------------------------------------------------------------------
(* generate.py: load_event *)

required_keys == <<"event_type", "cues">>

known_prefixes == <<"/avantis", "/lights", "/obs", "/cam", "/td", "/fade", "/system">>

\* any(p.startswith(address) for p in known_prefixes)
HasKnownPrefixReversed(address) ==
    \E i \in 1..Len(known_prefixes) : StartsWith(known_prefixes[i], address)

\* any(address.startswith(p) for p in known_prefixes)
HasKnownPrefix(address) ==
    \E i \in 1..Len(known_prefixes) : StartsWith(address, known_prefixes[i])

\* the inner loop of the validation, over the hub actions of one cue
RECURSIVE ActionWarnings(_, _)
ActionWarnings(cue, actions) ==
    IF Len(actions) = 0 THEN <<>>
    ELSE LET address == Get(Head(actions), "address", "")
         IN  (IF ~HasKnownPrefix(address)
              THEN <<[kind |-> "unknown_prefix",
                      cue |-> Get(cue, "id", "None"),
                      address |-> address]>>
              ELSE <<>>)
             \o ActionWarnings(cue, Tail(actions))

\* the outer loop of the validation, over the cues
RECURSIVE PrefixWarnings(_)
PrefixWarnings(cues) ==
    IF Len(cues) = 0 THEN <<>>
    ELSE ActionWarnings(Head(cues), Get(Head(cues), "hub_actions", <<>>))
         \o PrefixWarnings(Tail(cues))

\* has_hub_actions after the validation loop
has_hub_actions(data) ==
    \E i \in 1..Len(Get(data, "cues", <<>>)) :
        Len(Get(Get(data, "cues", <<>>)[i], "hub_actions", <<>>)) > 0

\* "hub" not in data.get("network", {})
HubNotConfigured(data) == "hub" \notin DOMAIN Get(data, "network", EmptyDict)

HubWarning ==
    [kind |-> "missing_hub_config", cue |-> "", address |-> "127.0.0.1:9000"]

\* a check of the first required key alone
FirstMissingKeyTypeOnly(data) ==
    IF required_keys[1] \notin DOMAIN data THEN required_keys[1] ELSE ""

\* the first required key that the document lacks, "" if it has them all
FirstMissingKey(data) ==
    IF required_keys[1] \notin DOMAIN data THEN required_keys[1]
    ELSE IF required_keys[2] \notin DOMAIN data THEN required_keys[2]
    ELSE ""

-----------------------------------------------------------------------------
(* The templates the program is run on *)

AllTargets == {"companion", "qlab", "touchdesigner", "checklist"}

CueTypes == <<"lighting", "audio", "video", "system", "custom">>

\* a cue of the template; timing "" leaves the key out
MkCue(n, timing) ==
    [number |-> n,
     id |-> "q" \o ToString(n),
     name |-> "Cue " \o ToString(n),
     type |-> CueTypes[(n % Len(CueTypes)) + 1]]
    @@ (IF timing = "" THEN EmptyDict ELSE [timing |-> timing])

MkDoc(cues) ==
    [event_type |-> "recital", event_name |-> "Spring Recital", cues |-> cues]

MkTemplate(data) == [exists |-> TRUE, data |-> data, only |-> {}]

\* np pre-show cues, then ns show cues, then nq post-show cues
BlockCues(np, ns, nq) ==
    [i \in 1..(np + ns + nq) |->
        MkCue(i, IF i <= np THEN "pre-show"
                 ELSE IF i <= np + ns THEN "show" ELSE "post-show")]

BlockTemplates ==
    {MkTemplate(MkDoc(BlockCues(np, ns, nq))) :
        np \in 0..MaxBucket, ns \in 0..MaxBucket, nq \in 0..MaxBucket}

Timings == {"pre-show", "show", "post-show", ""}

\* cues in any order of timings, numbered in declaration order or against it
InterleavedTemplates ==
    UNION {{MkTemplate(MkDoc([i \in 1..n |->
                MkCue(IF descending THEN n + 1 - i ELSE i, ts[i])])) :
            ts \in [1..n -> Timings], descending \in BOOLEAN} : n \in 0..MaxCues}

ArgLists ==
    {<<>>,
     <<[t |-> "float", v |-> "0.5"]>>,
     <<[t |-> "int", v |-> "3"]>>,
     <<[t |-> "bool", v |-> "true"]>>,
     <<[t |-> "str", v |-> "Wide"]>>,
     <<[t |-> "null", v |-> "null"]>>,
     <<[t |-> "int", v |-> "1"], [t |-> "str", v |-> "x"]>>}

Addresses ==
    {"/avantis/ch/1/mix/mute", "/lights", "/light/1", "/camera/2/zoom",
     "osc/td", "/qlab/go", ""}

\* a hub action with any of the keys left out
SingleActions ==
    {[address |-> a, args |-> as] : a \in Addresses, as \in ArgLists}
    \cup {[address |-> a] : a \in Addresses}
    \cup {[args |-> as] : as \in ArgLists}

ActionPool ==
    {[address |-> "/lights/exec/1", args |-> <<[t |-> "float", v |-> "0.5"]>>],
     [address |-> "/foo/bar", args |-> <<[t |-> "int", v |-> "3"]>>],
     [address |-> "/obs/scene/Wide", args |-> <<[t |-> "str", v |-> "on"]>>],
     [address |-> "/cam1/preset/recall/1"]}

ActionLists ==
    UNION {[1..n -> ActionPool] : n \in 0..MaxActions}
    \cup {<<a>> : a \in SingleActions}

\* one show-time cue carrying the hub actions, or none when withKey is false
ActionCue(n, withKey, actions) ==
    MkCue(n, "show") @@ (IF withKey THEN [hub_actions |-> actions] ELSE EmptyDict)

ActionTemplates ==
    {MkTemplate(MkDoc(<<ActionCue(1, TRUE, as)>>)) : as \in ActionLists}
    \cup {MkTemplate(MkDoc(<<ActionCue(1, FALSE, <<>>)>>))}
    \cup {MkTemplate(MkDoc(<<[name |-> "Unnumbered"]>>))}
    \cup {MkTemplate(MkDoc(<<ActionCue(2, TRUE, <<a>>), ActionCue(1, TRUE, <<b>>)>>)) :
            a \in ActionPool, b \in ActionPool}

Hubs ==
    {EmptyDict, [host |-> "10.0.0.5"], [port |-> 9001],
     [host |-> "10.0.0.5", port |-> 9001]}

Networks ==
    {[hub |-> h] : h \in Hubs}
    \cup {[hub |-> h, qlab |-> [host |-> "10.0.0.7", port |-> 53001, passcode |-> "4321"]] :
            h \in Hubs}
    \cup {EmptyDict,
          [touchdesigner |-> [osc_listen_port |-> 12001]]}

NetCueLists ==
    {<<>>,
     <<MkCue(1, "show")>>,
     <<ActionCue(1, TRUE, <<>>)>>,
     <<MkCue(1, "show"), ActionCue(2, TRUE, <<>>)>>,
     <<ActionCue(1, TRUE, <<[address |-> "/lights/exec/1"]>>)>>,
     <<MkCue(1, "pre-show"), ActionCue(2, TRUE, <<[address |-> "/nowhere"]>>)>>}

NetTemplates ==
    {MkTemplate(MkDoc(cs) @@ [network |-> n]) : cs \in NetCueLists, n \in Networks}
    \cup {MkTemplate(MkDoc(cs)) : cs \in NetCueLists}

\* the i-th microphone (1-based); a bare one has neither id nor input_channel
MkMic(i, bare) ==
    IF bare THEN [type |-> "handheld"]
    ELSE [id |-> "mic" \o ToString(i), input_channel |-> i + 10, performer |-> "Solo"]

PresetNames == <<"Warm Stage Wash", "Blue", "House Half">>

\* the i-th lighting preset (1-based); every fourth has no name
MkPreset(i) ==
    IF i % 4 = 0 THEN [description |-> "spare"]
    ELSE [name |-> PresetNames[(i % 3) + 1]]

\* the i-th camera (1-based); the second has no id
MkCamera(i) ==
    IF i = 2 THEN [shot |-> "close"]
    ELSE [id |-> "cam" \o ToString(i), shot |-> "wide", position |-> "rear"]

AVTemplates ==
    {MkTemplate(MkDoc(<<MkCue(1, "show")>>)
        @@ [audio |-> [microphones |-> [i \in 1..nm |-> MkMic(i, bare)]],
            video |-> [cameras |-> [i \in 1..nc |-> MkCamera(i)]],
            lighting |-> [presets |-> [i \in 1..np |-> MkPreset(i)]]]) :
        nm \in 0..MaxMics, np \in 0..MaxPresets, nc \in 0..MaxCams, bare \in BOOLEAN}

\* templates that lack a required key, and a template path with no file
MissingTemplates ==
    {MkTemplate([event_name |-> "No Type", cues |-> <<MkCue(1, "show")>>]),
     MkTemplate([event_type |-> "recital", event_name |-> "No Cues"]),
     MkTemplate([event_name |-> "Neither"]),
     MkTemplate(EmptyDict),
     [exists |-> FALSE, data |-> EmptyDict, only |-> {}]}

\* --only with every non-empty choice of targets
SelectorTemplates ==
    {[exists |-> TRUE,
      data |-> MkDoc(<<MkCue(1, "pre-show"),
                       ActionCue(2, TRUE, <<[address |-> "/lights/exec/1"]>>)>>),
      only |-> o] : o \in (SUBSET AllTargets) \ {{}}}

-----------------------------------------------------------------------------
(* The state machine of main *)

\* a selector that is parsed and then ignored
targetsEverything == AllTargets

\* args.only or ["companion", "qlab", "touchdesigner", "checklist"]
targets == IF template.only # {} THEN template.only ELSE AllTargets

\* str(out / f"{event_type}{suffix}") with the default output directory
OutPath(suffix) == "output/" \o Get(event, "event_type", "unknown") \o suffix

Init ==
    /\ \/ template \in BlockTemplates
       \/ template \in InterleavedTemplates
       \/ template \in ActionTemplates
       \/ template \in NetTemplates
       \/ template \in AVTemplates
       \/ template \in MissingTemplates
       \/ template \in SelectorTemplates
    /\ clock = 0
    /\ run = 1
    /\ pc = "load"
    /\ event = EmptyDict
    /\ stdout = <<>>
    /\ exitCode = -1
    /\ buttons = EmptyDict
    /\ col = 0
    /\ row = 0
    /\ idx = 0
    /\ pages = EmptyDict
    /\ generated = <<>>
    /\ files = EmptyDict
    /\ archive = <<>>

ErrorLine(kind, what) == [kind |-> kind, cue |-> "", address |-> what]

\* load_event when the template file does not exist: sys.exit(1)
LoadMissingFile ==
    /\ pc = "load"
    /\ ~template.exists
    /\ stdout' = Append(stdout, ErrorLine("error_not_found", "template"))
    /\ exitCode' = 1
    /\ pc' = "exited"
    /\ UNCHANGED <<template, clock, run, event, buttons, col, row, idx, pages,
                   generated, files, archive>>

\* load_event when a required key is missing: sys.exit(1)
LoadMissingKey ==
    /\ pc = "load"
    /\ template.exists
    /\ FirstMissingKey(template.data) # ""
    /\ stdout' = Append(stdout, ErrorLine("error_missing_key",
                                          FirstMissingKey(template.data)))
    /\ exitCode' = 1
    /\ pc' = "exited"
    /\ UNCHANGED <<template, clock, run, event, buttons, col, row, idx, pages,
                   generated, files, archive>>

\* load_event when it returns the document, with its warnings
LoadOk ==
    /\ pc = "load"
    /\ template.exists
    /\ FirstMissingKey(template.data) = ""
    /\ stdout' = stdout
                 \o PrefixWarnings(Get(template.data, "cues", <<>>))
                 \o (IF has_hub_actions(template.data) /\ HubNotConfigured(template.data)
                     THEN <<HubWarning>> ELSE <<>>)
    /\ event' = template.data
    /\ pc' = "companion"
    /\ UNCHANGED <<template, clock, run, exitCode, buttons, col, row, idx, pages,
                   generated, files, archive>>

load_event == LoadMissingFile \/ LoadMissingKey \/ LoadOk

\* the column and row a bucket loop writes to: the wrap test of its body
WrapCol(c) == IF c >= grid_cols THEN 0 ELSE c
\* a cursor that stays on its row when the column wraps
WrapRowStays(c, r) == r

WrapRow(c, r) == IF c >= grid_cols THEN r + 1 ELSE r

\* the body of a bucket loop of _build_show_control_page
PlaceCue(cue) ==
    /\ buttons' = Put(buttons, Key(WrapRow(col, row), WrapCol(col)),
                      _make_cue_button(cue))
    /\ col' = WrapCol(col) + 1
    /\ row' = WrapRow(col, row)
    /\ idx' = idx + 1

\* main: the companion target, up to the header row and the cursor of the
\* pre-show loop
StartCompanion ==
    /\ pc = "companion"
    /\ IF "companion" \in targets
       THEN /\ buttons' = ShowControlHeader(event)
            /\ col' = 0
            /\ row' = 1
            /\ idx' = 0
            /\ pc' = "pre_show"
       ELSE /\ pc' = "qlab"
            /\ UNCHANGED <<buttons, col, row, idx>>
    /\ UNCHANGED <<template, clock, run, event, stdout, exitCode, pages,
                   generated, files, archive>>

\* for cue in pre_show, then the cursor of the show loop
LoopPreShow ==
    /\ pc = "pre_show"
    /\ IF idx < Len(pre_show(event))
       THEN /\ PlaceCue(pre_show(event)[idx + 1])
            /\ pc' = pc
       ELSE /\ col' = 0
            /\ row' = 2
            /\ idx' = 0
            /\ pc' = "show_cues"
            /\ UNCHANGED buttons
    /\ UNCHANGED <<template, clock, run, event, stdout, exitCode, pages,
                   generated, files, archive>>

\* for cue in show_cues, then the cursor of the post-show loop
LoopShowCues ==
    /\ pc = "show_cues"
    /\ IF idx < Len(show_cues(event))
       THEN /\ PlaceCue(show_cues(event)[idx + 1])
            /\ pc' = pc
       ELSE /\ col' = 0
            /\ row' = 3
            /\ idx' = 0
            /\ pc' = "post_show"
            /\ UNCHANGED buttons
    /\ UNCHANGED <<template, clock, run, event, stdout, exitCode, pages,
                   generated, files, archive>>

\* for cue in post_show, then the page returned to generate as page_1
LoopPostShow ==
    /\ pc = "post_show"
    /\ IF idx < Len(post_show(event))
       THEN /\ PlaceCue(post_show(event)[idx + 1])
            /\ pc' = pc
            /\ UNCHANGED pages
       ELSE /\ pages' = [page_1 |-> [name |-> "Show Control",
                                     gridSize |-> [columns |-> grid_cols,
                                                   rows |-> grid_rows],
                                     buttons |-> buttons]]
            /\ pc' = "av_page"
            /\ UNCHANGED <<buttons, col, row, idx>>
    /\ UNCHANGED <<template, clock, run, event, stdout, exitCode,
                   generated, files, archive>>

\* generate: page_2, by a page builder that fills the device lists it does
\* not find into the event
BuildAVPageSetDefault ==
    /\ pc = "av_page"
    /\ pages' = Put(pages, "page_2", _build_av_control_page(event))
    /\ event' = event @@ [video |-> [cameras |-> <<>>],
                          audio |-> [microphones |-> <<>>],
                          lighting |-> [presets |-> <<>>]]
    /\ pc' = "companion_write"
    /\ UNCHANGED <<template, clock, run, stdout, exitCode, buttons, col,
                   row, idx, generated, files, archive>>

\* generate: page_2
BuildAVPage ==
    /\ pc = "av_page"
    /\ pages' = Put(pages, "page_2", _build_av_control_page(event))
    /\ pc' = "companion_write"
    /\ UNCHANGED <<template, clock, run, event, stdout, exitCode, buttons, col,
                   row, idx, generated, files, archive>>

\* generate: the config; write: json.dump; main: generated.append
WriteCompanion ==
    /\ pc = "companion_write"
    /\ files' = Put(files, OutPath("_companion.json"), CompanionConfig(event, pages))
    /\ generated' = Append(generated, <<"Companion JSON", OutPath("_companion.json")>>)
    /\ pc' = "qlab"
    /\ UNCHANGED <<template, clock, run, event, stdout, exitCode, buttons, col,
                   row, idx, pages, archive>>

\* main: the qlab target
RunQLab ==
    /\ pc = "qlab"
    /\ IF "qlab" \in targets
       THEN /\ files' = Put(files, OutPath("_qlab_cues.py"), QLabScript(event))
            /\ generated' = Append(generated,
                                   <<"QLab Script", OutPath("_qlab_cues.py")>>)
       ELSE UNCHANGED <<files, generated>>
    /\ pc' = "touchdesigner"
    /\ UNCHANGED <<template, clock, run, event, stdout, exitCode, buttons, col,
                   row, idx, pages, archive>>

\* main: the touchdesigner target
RunTouchDesigner ==
    /\ pc = "touchdesigner"
    /\ IF "touchdesigner" \in targets
       THEN /\ files' = Put(files, OutPath("_touchdesigner_setup.py"),
                            TouchDesignerScript(event))
            /\ generated' = Append(generated,
                                   <<"TouchDesigner Script",
                                     OutPath("_touchdesigner_setup.py")>>)
       ELSE UNCHANGED <<files, generated>>
    /\ pc' = "checklist"
    /\ UNCHANGED <<template, clock, run, event, stdout, exitCode, buttons, col,
                   row, idx, pages, archive>>

\* main: the checklist target; _header reads the clock, which has not gone back
RunChecklist ==
    /\ pc = "checklist"
    /\ IF "checklist" \in targets
       THEN \E now \in clock..MaxDay :
                /\ clock' = now
                /\ files' = Put(files, OutPath("_checklist.md"),
                                ChecklistGenerate(event, now))
                /\ generated' = Append(generated,
                                       <<"Setup Checklist", OutPath("_checklist.md")>>)
       ELSE UNCHANGED <<clock, files, generated>>
    /\ pc' = "summary"
    /\ UNCHANGED <<template, run, event, stdout, exitCode, buttons, col,
                   row, idx, pages, archive>>

\* main: the summary, and the normal end of the process
Summary ==
    /\ pc = "summary"
    /\ exitCode' = 0
    /\ pc' = "done"
    /\ UNCHANGED <<template, clock, run, event, stdout, buttons, col, row, idx,
                   pages, generated, files, archive>>

\* the program is invoked again on the same template and output directory
Rerun ==
    /\ pc \in {"done", "exited"}
    /\ run < MaxRuns
    /\ archive' = Append(archive, files)
    /\ run' = run + 1
    /\ pc' = "load"
    /\ event' = EmptyDict
    /\ stdout' = <<>>
    /\ exitCode' = -1
    /\ buttons' = EmptyDict
    /\ col' = 0
    /\ row' = 0
    /\ idx' = 0
    /\ pages' = EmptyDict
    /\ generated' = <<>>
    /\ UNCHANGED <<template, clock, files>>

Next ==
    \/ load_event
    \/ StartCompanion
    \/ LoopPreShow
    \/ LoopShowCues
    \/ LoopPostShow
    \/ BuildAVPage
    \/ WriteCompanion
    \/ RunQLab
    \/ RunTouchDesigner
    \/ RunChecklist
    \/ Summary

Spec == Init /\ [][Next]_vars

\* main, invoked up to MaxRuns times on the same template
NextRerun == Next \/ Rerun

SpecRerun == Init /\ [][NextRerun]_vars

-----------------------------------------------------------------------------
(* main with its four target blocks run in any order, the steps of the      *)
(* panel compiler interleaved with the other three compilers. pc is the     *)
(* position of the panel compiler, "qlab" once it has returned or is not    *)
(* selected.                                                                *)

\* the target block with this entry in 'generated' has run
Generated(name) == \E n \in DOMAIN generated : generated[n][1] = name

\* load_event has returned and the summary is not printed yet
Compiling == pc \notin {"load", "exited", "done"}

\* main: the qlab target, whenever it has not run yet
AnyQLab ==
    /\ Compiling
    /\ "qlab" \in targets
    /\ ~Generated("QLab Script")
    /\ files' = Put(files, OutPath("_qlab_cues.py"), QLabScript(event))
    /\ generated' = Append(generated, <<"QLab Script", OutPath("_qlab_cues.py")>>)
    /\ UNCHANGED <<template, clock, run, pc, event, stdout, exitCode, buttons,
                   col, row, idx, pages, archive>>

\* main: the touchdesigner target, whenever it has not run yet
AnyTouchDesigner ==
    /\ Compiling
    /\ "touchdesigner" \in targets
    /\ ~Generated("TouchDesigner Script")
    /\ files' = Put(files, OutPath("_touchdesigner_setup.py"),
                    TouchDesignerScript(event))
    /\ generated' = Append(generated, <<"TouchDesigner Script",
                                        OutPath("_touchdesigner_setup.py")>>)
    /\ UNCHANGED <<template, clock, run, pc, event, stdout, exitCode, buttons,
                   col, row, idx, pages, archive>>

\* main: the checklist target, whenever it has not run yet
AnyChecklist ==
    /\ Compiling
    /\ "checklist" \in targets
    /\ ~Generated("Setup Checklist")
    /\ \E now \in clock..MaxDay :
            /\ clock' = now
            /\ files' = Put(files, OutPath("_checklist.md"),
                            ChecklistGenerate(event, now))
    /\ generated' = Append(generated, <<"Setup Checklist", OutPath("_checklist.md")>>)
    /\ UNCHANGED <<template, run, pc, event, stdout, exitCode, buttons,
                   col, row, idx, pages, archive>>

\* main: the summary, once every selected target has run
AnySummary ==
    /\ pc = "qlab"
    /\ "qlab" \in targets => Generated("QLab Script")
    /\ "touchdesigner" \in targets => Generated("TouchDesigner Script")
    /\ "checklist" \in targets => Generated("Setup Checklist")
    /\ exitCode' = 0
    /\ pc' = "done"
    /\ UNCHANGED <<template, clock, run, event, stdout, buttons, col, row, idx,
                   pages, generated, files, archive>>

\* the templates the orders are tried on
InitAnyOrder ==
    /\ Init
    /\ \/ template \in SelectorTemplates
       \/ template \in MissingTemplates
       \/ \E n \in Networks :
            template = MkTemplate(MkDoc(<<MkCue(1, "pre-show"),
                ActionCue(2, TRUE, <<[address |-> "/nowhere"]>>)>>) @@ [network |-> n])

NextAnyOrder ==
    \/ load_event
    \/ StartCompanion
    \/ LoopPreShow
    \/ LoopShowCues
    \/ LoopPostShow
    \/ BuildAVPage
    \/ WriteCompanion
    \/ AnyQLab
    \/ AnyTouchDesigner
    \/ AnyChecklist
    \/ AnySummary
    \/ Rerun

SpecAnyOrder == InitAnyOrder /\ [][NextAnyOrder]_vars

-----------------------------------------------------------------------------
(* Properties *)

Page1Built == "page_1" \in DOMAIN pages
Page2Built == "page_2" \in DOMAIN pages

Cues == Get(event, "cues", <<>>)

\* the text on the button of a cue
CueText(cue) ==
    "Q" \o (IF "number" \in DOMAIN cue THEN ToString(cue["number"]) ELSE "???")
        \o "\n" \o SubSeq(Get(cue, "name", "Untitled"), 1,
                          Min(16, Len(Get(cue, "name", "Untitled"))))

\* the coordinates of the Show-Control page that show the button of a cue
ButtonsOf(cue) ==
    {k \in DOMAIN pages["page_1"]["buttons"] :
        pages["page_1"]["buttons"][k]["style"]["text"] = CueText(cue)}

\* the actions fired by the button at a coordinate of a page
Down(page, k) == pages[page]["buttons"][k]["steps"]["step0"]["down"]

HubActions(cue) == Get(cue, "hub_actions", <<>>)

\* C1: once the three bucket loops of the Show-Control page have run, every
\* cue owns a coordinate of its own: the page has one button per cue besides
\* the six of the header row, and every cue's button is on it.
C1_NoCueCollision ==
    Page1Built =>
        /\ Cardinality(DOMAIN pages["page_1"]["buttons"]) = 6 + Len(Cues)
        /\ \A i \in 1..Len(Cues) : ButtonsOf(Cues[i]) # {}

\* the variant the claim assigns to the first argument of a hub action
ClaimedVariant(ha) ==
    IF "args" \notin DOMAIN ha \/ Len(ha["args"]) = 0 THEN "osc:send_no_args"
    ELSE IF ha["args"][1].t = "float" THEN "osc:send_float"
    ELSE IF ha["args"][1].t = "int" THEN "osc:send_integer"
    ELSE "osc:send_string"

\* C2: the button of a cue with at least one hub action fires exactly one
\* action per hub action, in the same order, with the hub action's address as
\* its path, and with the variant of the first argument's type: float ->
\* send_float, integer -> send_integer, string or any other type ->
\* send_string, no argument -> send_no_args.
C2_OneActionPerHubAction ==
    Page1Built =>
        \A i \in 1..Len(Cues) : \A k \in ButtonsOf(Cues[i]) :
            Len(HubActions(Cues[i])) > 0 =>
                /\ Len(Down("page_1", k)) = Len(HubActions(Cues[i]))
                /\ \A j \in 1..Len(HubActions(Cues[i])) :
                    /\ Down("page_1", k)[j]["options"]["path"]
                           = Get(HubActions(Cues[i])[j], "address", "")
                    /\ Down("page_1", k)[j]["actionId"]
                           = ClaimedVariant(HubActions(Cues[i])[j])

\* C3: the button of a cue with no hub action (the key absent, or an empty
\* list) fires exactly one action, a no-argument trigger on
\* /cue/{number}/start with the cue's number.
C3_PlaceholderAction ==
    Page1Built =>
        \A i \in 1..Len(Cues) : \A k \in ButtonsOf(Cues[i]) :
            Len(HubActions(Cues[i])) = 0 =>
                Down("page_1", k)
                    = <<[actionId |-> "osc:send_no_args",
                         options |-> [path |->
                            "/cue/"
                            \o (IF "number" \in DOMAIN Cues[i]
                                THEN ToString(Cues[i]["number"]) ELSE "???")
                            \o "/start"]]>>

\* a cue without the hub_actions key and another with an empty list have
\* each got their button
C3_Witness ==
    /\ Page1Built
    /\ \E i \in 1..Len(Cues) :
            /\ "hub_actions" \notin DOMAIN Cues[i]
            /\ ButtonsOf(Cues[i]) # {}
    /\ \E i \in 1..Len(Cues) :
            /\ "hub_actions" \in DOMAIN Cues[i]
            /\ Len(Cues[i]["hub_actions"]) = 0
            /\ ButtonsOf(Cues[i]) # {}

\* C4: two invocations on the same template leave the same artifacts: what
\* an invocation has written equals what every earlier one had written.
C4_Deterministic ==
    pc = "done" => \A r \in 1..Len(archive) : archive[r] = files

\* the lines of a text that start with a prefix
LinesWith(text, prefix) == {i \in DOMAIN text : StartsWith(text[i], prefix)}

CompanionFile == "output/recital_companion.json"
ChecklistFile == "output/recital_checklist.md"

\* the hub of the template, an empty dict when the template names none
TemplateHub == Get(Get(template.data, "network", EmptyDict), "hub", EmptyDict)

BothWritten ==
    /\ pc = "done"
    /\ {CompanionFile, ChecklistFile} \subseteq DOMAIN files

\* C5: the hub host and port of the panel's connection descriptor are the
\* ones the checklist prints in its network and software sections, and a
\* value the template leaves out is 127.0.0.1, respectively 9000, in both.
C5_SameHubEndpoint ==
    BothWritten =>
        LET config == files[CompanionFile]["connections"][1]["config"]
            text == files[ChecklistFile]
            running == LinesWith(text, "- [ ] Production Hub running at")
            dashboard == LinesWith(text, "- [ ] Hub dashboard accessible at")
            oscport == LinesWith(text, "- [ ] Hub OSC port")
        IN  /\ Cardinality(running) = 1
            /\ Cardinality(dashboard) = 1
            /\ Cardinality(oscport) = 1
            /\ \A i \in running :
                text[i] = "- [ ] Production Hub running at '" \o config["host"]
                          \o ":" \o ToString(config["port"]) \o "'"
            /\ \A i \in dashboard :
                text[i] = "- [ ] Hub dashboard accessible at 'http://"
                          \o config["host"] \o ":8080/'"
            /\ \A i \in oscport :
                text[i] = "- [ ] Hub OSC port '" \o ToString(config["port"])
                          \o "' receiving traffic"
            /\ "host" \in DOMAIN TemplateHub => config["host"] = TemplateHub["host"]
            /\ "port" \in DOMAIN TemplateHub => config["port"] = TemplateHub["port"]
            /\ "host" \notin DOMAIN TemplateHub => config["host"] = "127.0.0.1"
            /\ "port" \notin DOMAIN TemplateHub => config["port"] = 9000

\* both artifacts are written for a hub with only a host: one value is the
\* template's and the other the fallback
C5_Witness ==
    /\ BothWritten
    /\ DOMAIN TemplateHub = {"host"}
    /\ files[CompanionFile]["connections"][1]["config"]["port"] = 9000
    /\ files[CompanionFile]["connections"][1]["config"]["host"] = "10.0.0.5"

\* the template has every required key
HasRequiredKeys == {"event_type", "cues"} \subseteq DOMAIN template.data

\* the output directory as the invocation found it
FilesAtStart == IF run = 1 THEN EmptyDict ELSE archive[run - 1]

\* no generator has been constructed and nothing has been written
NoCompilerRan ==
    /\ generated = <<>>
    /\ buttons = EmptyDict
    /\ pages = EmptyDict
    /\ files = FilesAtStart

Loaded == pc \notin {"load", "exited"}

\* the address starts with a prefix the hub routes
Routed(address) ==
    \E p \in {"/avantis", "/lights", "/obs", "/cam", "/td", "/fade", "/system"} :
        /\ Len(address) >= Len(p)
        /\ \A n \in 1..Len(p) : SubSeq(address, n, n) = SubSeq(p, n, n)

\* the hub actions of the template, as <<cue position, action position>>
ActionSites ==
    {<<i, j>> \in (1..Len(Cues)) \X (1..(MaxActions + 1)) :
        j <= Len(HubActions(Cues[i]))}

SiteAddress(site) == Get(HubActions(Cues[site[1]])[site[2]], "address", "")
SiteCue(site) == Get(Cues[site[1]], "id", "None")

\* the unknown-prefix warnings printed for a cue id and an address
PrefixWarningsFor(cue, address) ==
    {n \in DOMAIN stdout :
        stdout[n] = [kind |-> "unknown_prefix", cue |-> cue, address |-> address]}

\* C7: load_event prints one unknown-prefix warning for every hub action whose
\* address starts with none of the known prefixes and none for the others; it
\* still returns the document as it is and main goes on; the button of the
\* cue fires the address as written.
C7_UnknownPrefixWarning ==
    Loaded =>
        /\ event = template.data
        /\ exitCode # 1
        /\ \A s \in ActionSites :
            Cardinality(PrefixWarningsFor(SiteCue(s), SiteAddress(s)))
                = IF Routed(SiteAddress(s))
                  THEN 0
                  ELSE Cardinality({u \in ActionSites :
                            /\ SiteCue(u) = SiteCue(s)
                            /\ SiteAddress(u) = SiteAddress(s)})
        /\ Cardinality({n \in DOMAIN stdout : stdout[n]["kind"] = "unknown_prefix"})
               = Cardinality({s \in ActionSites : ~Routed(SiteAddress(s))})
        /\ Page1Built =>
            \A s \in ActionSites : \A k \in ButtonsOf(Cues[s[1]]) :
                Down("page_1", k)[s[2]]["options"]["path"] = SiteAddress(s)

\* a template with an unrouted address and a routed one has been warned
\* about the first, and its panel is written
C7_Witness ==
    /\ pc = "done"
    /\ CompanionFile \in DOMAIN files
    /\ \E s \in ActionSites : ~Routed(SiteAddress(s))
    /\ \E s \in ActionSites : Routed(SiteAddress(s))
    /\ \E n \in DOMAIN stdout : stdout[n]["kind"] = "unknown_prefix"

\* some cue of the template has a hub action
SomeHubAction == \E i \in 1..Len(Cues) : Len(HubActions(Cues[i])) > 0

\* a compiler takes the hub host or the hub port from the default endpoint
FallsBackToDefault == {"host", "port"} \ DOMAIN TemplateHub # {}

HubWarningPrinted ==
    \E n \in DOMAIN stdout : stdout[n]["kind"] = "missing_hub_config"

\* C8: with a hub action in the cue list, load_event prints the
\* missing-hub-config warning whenever the compilers fall back to the default
\* hub endpoint 127.0.0.1:9000, main goes on, and the panel connects to the
\* default for what the template leaves out.
C8_MissingHubWarning ==
    (Loaded /\ SomeHubAction /\ FallsBackToDefault) =>
        /\ HubWarningPrinted
        /\ exitCode # 1
        /\ (pc = "done" /\ CompanionFile \in DOMAIN files) =>
            LET config == files[CompanionFile]["connections"][1]["config"]
            IN  /\ "host" \notin DOMAIN TemplateHub => config["host"] = "127.0.0.1"
                /\ "port" \notin DOMAIN TemplateHub => config["port"] = 9000

\* the keys of a page's buttons in a row, as columns
RowColumns(page, r) ==
    {c \in 0..(MaxMics + MaxMics + MaxPresets + MaxCams + 2) :
        (ToString(r) \o "," \o ToString(c)) \in DOMAIN pages[page]["buttons"]}

Presets == Get(Get(event, "lighting", EmptyDict), "presets", <<>>)

\* C9: the direct-control page has min(number of presets, 7) lighting-preset
\* buttons, in row 3 at columns 1..7, and the k-th preset fires /lights/exec/k.
C9_PresetCap ==
    Page2Built =>
        /\ RowColumns("page_2", 3) = 0..Min(Len(Presets), 7)
        /\ Cardinality({k \in DOMAIN pages["page_2"]["buttons"] :
                pages["page_2"]["buttons"][k]["style"]["bgcolor"] = 39372})
               = Min(Len(Presets), 7)
        /\ \A k \in 1..Min(Len(Presets), 7) :
            Down("page_2", "3," \o ToString(k))
                = <<[actionId |-> "osc:send_no_args",
                     options |-> [path |-> "/lights/exec/" \o ToString(k)]]>>

\* a template with more than seven presets has its direct-control page
C9_Witness ==
    /\ Page2Built
    /\ Len(Presets) > 7
    /\ "3,7" \in DOMAIN pages["page_2"]["buttons"]

Mics == Get(Get(event, "audio", EmptyDict), "microphones", <<>>)

\* the mute path of the i-th microphone (0-based)
ExpectedMutePath(i) ==
    "/avantis/ch/"
    \o (IF "input_channel" \in DOMAIN Mics[i + 1]
        THEN ToString(Mics[i + 1]["input_channel"]) ELSE ToString(i + 1))
    \o "/mix/mute"

\* C10: the unmute button of the i-th microphone (0-based) is on the
\* direct-control page if and only if its column i + 1 + (number of
\* microphones) is less than 8; leaving it out prints nothing and stops
\* nothing; a placed one sends 0 to the /avantis/ch/{channel}/mix/mute that
\* the microphone's mute button sends 1 to.
C10_UnmuteFitsGrid ==
    Page2Built =>
        /\ \A i \in 0..(Len(Mics) - 1) :
            LET c == i + 1 + Len(Mics)
                key == "2," \o ToString(c)
            IN  /\ key \in DOMAIN pages["page_2"]["buttons"] <=> c < 8
                /\ Down("page_2", "2," \o ToString(i + 1))
                       = <<[actionId |-> "osc:send_integer",
                            options |-> [path |-> ExpectedMutePath(i), value |-> 1]]>>
                /\ c < 8 =>
                    Down("page_2", key)
                        = <<[actionId |-> "osc:send_integer",
                             options |-> [path |-> ExpectedMutePath(i), value |-> 0]]>>
        /\ \A n \in DOMAIN stdout :
            stdout[n]["kind"] \in {"unknown_prefix", "missing_hub_config"}
        /\ exitCode # 1

\* four microphones: the first three unmute buttons are placed, the fourth
\* is left out
C10_Witness ==
    /\ Page2Built
    /\ Len(Mics) = 4
    /\ "2,7" \in DOMAIN pages["page_2"]["buttons"]
    /\ "2,8" \notin DOMAIN pages["page_2"]["buttons"]

\* the artifact kinds the selector names, all four without a selector
Selected ==
    IF template.only = {}
    THEN {"companion", "qlab", "touchdesigner", "checklist"}
    ELSE template.only

\* the file main writes for an artifact kind
ArtifactOf(kind) ==
    CASE kind = "companion" -> "output/recital_companion.json"
      [] kind = "qlab" -> "output/recital_qlab_cues.py"
      [] kind = "touchdesigner" -> "output/recital_touchdesigner_setup.py"
      [] kind = "checklist" -> "output/recital_checklist.md"

\* C11: in an invocation that has loaded its template, only the selected
\* compilers run: nothing but a selected artifact is ever written and the
\* panel compiler has no state unless selected; at the end every selected
\* compiler has written exactly one file, its own, and the exit status is 0.
C11_SelectedArtifactsOnly ==
    run = 1 =>
        /\ DOMAIN files \subseteq {ArtifactOf(k) : k \in Selected}
        /\ {generated[n][2] : n \in DOMAIN generated} = DOMAIN files
        /\ Len(generated) = Cardinality(DOMAIN files)
        /\ "companion" \notin Selected => buttons = EmptyDict /\ pages = EmptyDict
        /\ pc = "done" =>
            /\ exitCode = 0
            /\ DOMAIN files = {ArtifactOf(k) : k \in Selected}
        /\ exitCode = 0 => pc = "done"

\* main has ended with a selector that names two of the four kinds
C11_Witness ==
    /\ pc = "done"
    /\ exitCode = 0
    /\ template.only = {"qlab", "checklist"}
    /\ DOMAIN files = {"output/recital_qlab_cues.py", "output/recital_checklist.md"}

\* C12: once load_event has returned the event, no step of a compiler
\* changes it: the event the generators were given stays what was loaded.
C12_EventNotMutated ==
    [][(Loaded /\ run' = run) => (event' = event /\ event' = template.data)]_vars

\* the panel and the checklist have been generated from an event with cues
\* that names no devices, and the event is still the loaded document
C12_Witness ==
    /\ pc = "done"
    /\ {CompanionFile, ChecklistFile} \subseteq DOMAIN files
    /\ Len(Cues) > 0
    /\ "video" \notin DOMAIN event
    /\ event = template.data

\* the date a checklist says it was generated on
GeneratedLine(text) == {text[i] : i \in LinesWith(text, "| Generated |")}

\* two output directories hold checklists of the same day, or none
SameDay(d1, d2) ==
    (ChecklistFile \in DOMAIN d1 /\ ChecklistFile \in DOMAIN d2) =>
        GeneratedLine(d1[ChecklistFile]) = GeneratedLine(d2[ChecklistFile])

\* C13: whatever order and interleaving the selected compilers run in, each
\* writes the same artifact: an invocation leaves what every earlier
\* invocation of the same day left, however either ordered its compilers.
C13_OrderIndependent ==
    pc = "done" =>
        \A r \in 1..Len(archive) :
            SameDay(archive[r], files) => archive[r] = files

\* a second invocation has ended having run the checklist compiler first and
\* the panel compiler last, after a first one that wrote all four artifacts
C13_Witness ==
    /\ pc = "done"
    /\ run = 2
    /\ Len(generated) = 4
    /\ generated[1][1] = "Setup Checklist"
    /\ generated[4][1] = "Companion JSON"
    /\ Cardinality(DOMAIN archive[1]) = 4
    /\ archive[1] = files

\* the bucket the claim puts a cue in: 1 pre-show, 3 post-show, 2 otherwise
BucketOf(cue) ==
    IF "timing" \in DOMAIN cue /\ cue["timing"] = "pre-show" THEN 1
    ELSE IF "timing" \in DOMAIN cue /\ cue["timing"] = "post-show" THEN 3
    ELSE 2

\* the positions in the cue list of the cues of bucket b
Members(b) == {i \in 1..Len(Cues) : BucketOf(Cues[i]) = b}

\* the j-th smallest (1-based) of a set of positions
Nth(S, j) == CHOOSE i \in S : Cardinality({x \in S : x < i}) = j - 1

\* the three lists the page builder iterates, by starting row
BucketList(b) ==
    CASE b = 1 -> pre_show(event)
      [] b = 2 -> show_cues(event)
      [] b = 3 -> post_show(event)

\* the starting row of the loop the page builder is in, 0 outside the loops
LoopRow ==
    CASE pc = "pre_show" -> 1
      [] pc = "show_cues" -> 2
      [] pc = "post_show" -> 3
      [] OTHER -> 0

\* C14: every cue is in exactly one of the three buckets, by its timing; a
\* bucket lists its cues in their declared order; and while a bucket is being
\* laid out, its k-th cue (0-based) sits at row r + (k div 8), column k mod 8,
\* r the bucket's starting row, the cursor never moving up.
C14_BucketPlacement ==
    LoopRow # 0 =>
        /\ Members(1) \cup Members(2) \cup Members(3) = 1..Len(Cues)
        /\ \A b \in 1..3 :
              /\ Len(BucketList(b)) = Cardinality(Members(b))
              /\ \A j \in 1..Len(BucketList(b)) :
                    BucketList(b)[j] = Cues[Nth(Members(b), j)]
        /\ idx <= Len(BucketList(LoopRow))
        /\ row >= LoopRow
        /\ \A k \in 0..(idx - 1) :
              LET at == Key(LoopRow + (k \div 8), k % 8)
                  cue == Cues[Nth(Members(LoopRow), k + 1)]
              IN  /\ at \in DOMAIN buttons
                  /\ buttons[at] = _make_cue_button(cue)

\* a show-time bucket of nine cues, declared after a pre-show cue, is laid
\* out: the ninth has wrapped to row 3, column 0
C14_Witness ==
    /\ pc = "show_cues"
    /\ idx = 9
    /\ Len(pre_show(event)) = 1
    /\ BucketOf(Cues[1]) = 1
    /\ "3,0" \in DOMAIN buttons
    /\ buttons["3,0"] = _make_cue_button(Cues[10])

\* the checklist main wrote
Checklist == files[ChecklistFile]

\* the positions of the cue lines of the checklist
CueLines == LinesWith(Checklist, "- [ ] **Q")

\* the position of a line that is exactly this text, 0 when there is none
LineOf(text, line) ==
    IF \E i \in DOMAIN text : text[i] = line
    THEN CHOOSE i \in DOMAIN text : text[i] = line
    ELSE 0

\* the j-th cue line of the checklist is the line of a cue with this number
CueLineIs(j, number) ==
    StartsWith(Checklist[Nth(CueLines, j)],
               "- [ ] **Q" \o ToString(number) \o "** ")

\* every cue line is in the Cue Sequence section
InCueSequence ==
    \A i \in CueLines :
        /\ LineOf(Checklist, "### Cue Sequence") \in 1..(i - 1)
        /\ LineOf(Checklist, "## 8. Post-Show") > i

\* every cue of the event carries a number
AllNumbered == \A i \in 1..Len(Cues) : "number" \in DOMAIN Cues[i]

ChecklistWritten == pc = "done" /\ ChecklistFile \in DOMAIN files /\ AllNumbered

\* C15 as claimed: the Cue Sequence section has exactly one cue line per cue,
\* and the lines are in ascending order of cue number whatever the declared
\* order is.
C15_AscendingCueLines ==
    ChecklistWritten =>
        /\ Cardinality(CueLines) = Len(Cues)
        /\ InCueSequence
        /\ \A j \in 1..Len(Cues) : CueLineIs(j, SortedByNumber(Cues)[j]["number"])

\* C15, as the code has it: the Cue Sequence section has exactly one cue line
\* per cue, and the lines are in the order the cues are declared in.
C15_DeclaredOrderCueLines ==
    ChecklistWritten =>
        /\ Cardinality(CueLines) = Len(Cues)
        /\ InCueSequence
        /\ \A j \in 1..Len(Cues) : CueLineIs(j, Cues[j]["number"])

\* a checklist is written for three cues declared as 3, 2, 1
C15_Witness ==
    /\ ChecklistWritten
    /\ Len(Cues) = 3
    /\ Cues[1]["number"] = 3
    /\ Cues[3]["number"] = 1
    /\ CueLineIs(1, 3)
    /\ CueLineIs(3, 1)

\* the coordinates of a grid of the declared size
GridKeys(gridSize) ==
    {Key(r, c) : r \in 0..(gridSize.rows - 1), c \in 0..(gridSize.columns - 1)}

\* C16 as claimed: on both generated pages every key of the buttons map is a
\* coordinate inside the page's declared gridSize, 0 <= row < 4 and
\* 0 <= column < 8.
C16_ButtonsInsideGrid ==
    \A p \in DOMAIN pages :
        /\ pages[p].gridSize = [columns |-> 8, rows |-> 4]
        /\ DOMAIN pages[p].buttons \subseteq GridKeys(pages[p].gridSize)

====
